---- MODULE Spec2Model ----
(***************************************************************************)
(* Model of the arena allocator of src/arena.h (the ARENA_IMPLEMENTATION   *)
(* part, lines 246-396): a chain of malloc'd blocks with a bump cursor.    *)
(*                                                                         *)
(* Memory is a range of byte addresses.  malloc returns NULL or the base   *)
(* of a chunk that is MallocAlign-aligned and disjoint from every chunk    *)
(* that is still allocated; which one is the C library's choice, so the    *)
(* model takes any.  A block's data region starts HeaderSize bytes after   *)
(* its base (struct ArenaBlock's three word-sized fields come first).      *)
(* The sizes are those of an LP64 build.                                   *)
(***************************************************************************)
EXTENDS Integers, Sequences, FiniteSets

\* ---------------------------------------------------------------- bounds
HeapSlots == 7          \* the heap holds HeapSlots chunks of MallocAlign bytes
MaxSizeWords == 2       \* requested sizes: 0 and 1..MaxSizeWords words
MaxDefaultWords == 3    \* default_block_size: 0 and 1..MaxDefaultWords words
MaxCalls == 3           \* calls each thread makes on its own arena
MaxSharedCalls == 2     \* calls each thread makes on the arena both use
MaxLength == 4          \* arr->length: the slots the data array grows to
MaxRequests == 3        \* requests made before the reset and again after it

\* ------------------------------------------------------ platform constants
WordSize == 8           \* sizeof(size_t) == sizeof(void *)
HeaderSize == 24        \* sizeof(struct ArenaBlock): next, capacity, index
MallocAlign == 16       \* alignment of every address malloc returns

NULL == 0

Sizes == {0} \cup {WordSize * k : k \in 1..MaxSizeWords}
DefaultSizes == {0} \cup {WordSize * k : k \in 1..MaxDefaultWords}
Alignments == {0, 1, 3, 16, 64}

HeapStart == 2 * MallocAlign
HeapEnd == HeapStart + MallocAlign * HeapSlots
HeapBases == {HeapStart + MallocAlign * k : k \in 0..(HeapSlots - 1)}

VARIABLES
  arena,               \* the handle: "none" (NULL), "live", "freed"; "freed twice" and
                       \* "crashed" are the ends of runs with undefined behaviour
  head,                \* arena->head: a block id, NULL when absent
  current,             \* arena->current
  default_block_size,  \* arena->default_block_size
  blocks,              \* id -> [base, capacity, index, next], every block malloc'd
  released,            \* id -> how many times free() was called on the block
  ret,                 \* the last call: its arguments and what it returned; used is
                       \* head's index before the reset the call is or directly follows,
                       \* sysfail whether calloc or malloc returned NULL to the call
  issued,              \* the byte ranges alloc returned since the last reset, in order
  fresh,               \* no reset since arena_init
  vcursor,             \* the cursor a run of the requests in one block would reach
  \* The nested-checkpoint program of example/main.c (Demo 3):
  step,                \* how far the program has come
  outer_cp,            \* ArenaCheckpoint outer_cp: [block, index]
  inner_cp,            \* ArenaCheckpoint inner_cp
  outer_data,          \* the request made after outer_cp and the pointer it got
  inner_data,          \* the request made after inner_cp and the pointer it got
  \* A program of two threads that call the arena functions:
  arenas,              \* handle -> struct Arena: [state, head, current,
                       \* default_block_size]; head and current are block addresses
  store,               \* address -> the struct ArenaBlock malloc'd there and not freed
  threads,             \* thread -> where it is in its call, the call's arguments and
                       \* locals, what the last call returned, and for the claims the
                       \* arena and store when the call began and what malloc gave it
  \* A program that calls the arrayd functions on one Arrayd:
  arrayd,              \* struct Arrayd: [state, data, length, index]; state is "none"
                       \* before arrayd_new, "live", "cleared", or "aborted" once an
                       \* assertion has failed
  acall,               \* the last arrayd call: its arguments, whether it returned and
                       \* what, and the Arrayd it was called on
  \* A program that makes some requests, resets and makes them again:
  replay,              \* [phase, requests, done, owned]: the requests made before
                       \* the reset, how many were made again after it, and the
                       \* blocks the arena had at the reset
  \* The arithmetic of arena_alloc on its own:
  probe                \* the operands of one computation and, once done, its results

\* What the calls on the arena alone never touch.
elsewhere == <<step, outer_cp, inner_cp, outer_data, inner_data,
               arenas, store, threads, arrayd, acall, replay, probe>>

vars == <<arena, head, current, default_block_size, blocks, released, ret,
          issued, fresh, vcursor, elsewhere>>

\* ------------------------------------------------------------- the heap
\* uint8_t data[]: the flexible array member follows the header.
data(b) == b.base + HeaderSize

ChunkEnd(b) == b.base + HeaderSize + b.capacity

\* malloc(n): NULL, or any aligned base whose n bytes avoid the live chunks.
Malloc(n, blks, rel) ==
  {NULL} \cup
  {a \in HeapBases :
     /\ a + n <= HeapEnd
     /\ \A i \in 1..Len(blks) :
          rel[i] = 0 => (a + n <= blks[i].base \/ ChunkEnd(blks[i]) <= a)}

\* ------------------------------------------------------- pure functions
RECURSIVE BitAnd(_, _)
BitAnd(x, y) ==
  IF x = 0 \/ y = 0 THEN 0
  ELSE (IF x % 2 = 1 /\ y % 2 = 1 THEN 1 ELSE 0) + 2 * BitAnd(x \div 2, y \div 2)

\* alignment & (alignment - 1), for alignment > 0
NotPowerOfTwo(alignment) == BitAnd(alignment, alignment - 1) # 0

\* A padding that is the misalignment itself instead of its complement.
align_up_offset(ptr, alignment) == ptr % alignment

align_up(ptr, alignment) == (alignment - (ptr % alignment)) % alignment

\* A block that is always sized to the request.
BlockSizeRequest(size, dbs) == size

\* A block that is always of the default size.
BlockSizeDefault(size, dbs) == dbs

\* (size > arena->default_block_size) ? size : arena->default_block_size
BlockSize(size, dbs) == IF size > dbs THEN size ELSE dbs

\* A block whose next field is not cleared and holds a stale pointer to the
\* first block.
NewBlockStaleNext(base, cap) == [base |-> base, capacity |-> cap, index |-> 0, next |-> 1]

\* block->next = NULL; block->capacity = block_size; block->index = 0;
NewBlock(base, cap) == [base |-> base, capacity |-> cap, index |-> 0, next |-> NULL]

\* A fit test that turns away the request that fills the block exactly.
DoesNotFitOffByOne(b, padding, size) == b.index + padding + size >= b.capacity

\* arena->current->index + padding + size > arena->current->capacity
DoesNotFit(b, padding, size) == b.index + padding + size > b.capacity

\* index += padding; ptr = data + index; index += size
Bump(b, padding, size) == [b EXCEPT !.index = @ + padding + size]

\* The blocks reachable from b by next links, in order.
RECURSIVE ChainFrom(_, _, _)
ChainFrom(b, blks, fuel) ==
  IF b = NULL \/ fuel = 0 THEN <<>>
  ELSE <<b>> \o ChainFrom(blks[b].next, blks, fuel - 1)

Chain == ChainFrom(head, blocks, Len(blocks))

\* The handles no call is made on: the structure was released (use after free
\* is not modelled, but for a second arena_free) or the process is gone.
Gone == {"freed", "freed twice", "crashed"}

NoCheckpoint == [block |-> NULL, index |-> 0]

NoRequest == [size |-> 0, alignment |-> 0, ptr |-> NULL]

\* An uninitialised slot of the data array.
Garbage == -1

NoArrayd == [state |-> "none", data |-> <<>>, length |-> 0, index |-> 0]

NoArraydCall == [op |-> "none", index |-> 0, data |-> NULL, returned |-> FALSE,
                 ret |-> 0, before |-> NoArrayd]

NoReplay == [phase |-> "first", requests |-> <<>>, done |-> 0, owned |-> 0]

NoProbe == [fn |-> "none", done |-> FALSE]

ProbeAbsent == probe = NoProbe

ReplayAbsent == replay = NoReplay

ArraydAbsent == arrayd = NoArrayd /\ acall = NoArraydCall

NoCall == [op |-> "none", size |-> 0, alignment |-> 0, ptr |-> NULL,
           padding |-> 0, created |-> 0, used |-> 0, sysfail |-> FALSE]

\* No arena yet.
ArenaAbsent ==
  /\ arena = "none"
  /\ head = NULL
  /\ current = NULL
  /\ default_block_size = 0
  /\ blocks = <<>>
  /\ released = <<>>
  /\ ret = NoCall
  /\ issued = <<>>
  /\ fresh = TRUE
  /\ vcursor = 0
  /\ step = "run"
  /\ outer_cp = NoCheckpoint
  /\ inner_cp = NoCheckpoint
  /\ outer_data = NoRequest
  /\ inner_data = NoRequest

Init ==
  /\ ArenaAbsent
  /\ arenas = <<>>
  /\ store = <<>>
  /\ threads = <<>>
  /\ ArraydAbsent
  /\ ReplayAbsent
  /\ ProbeAbsent

\* ------------------------------------------------------------ arena_init
\* calloc_ok: whether calloc(1, sizeof(Arena)) returned memory.
\* An init that does not test what calloc returned.
InitFailsUnchecked(dbs, calloc_ok) == dbs = 0

\* if (default_block_size == 0) return NULL; ... if (!arena) return NULL;
InitFails(dbs, calloc_ok) == dbs = 0 \/ ~calloc_ok

\* An init that rounds the block size up to a whole number of malloc units.
StoredBlockSizeRounded(dbs) == ((dbs + MallocAlign - 1) \div MallocAlign) * MallocAlign

\* arena->default_block_size = default_block_size
StoredBlockSize(dbs) == dbs

arena_init(dbs, calloc_ok) ==
  /\ arena = "none"
  /\ IF InitFails(dbs, calloc_ok)
       THEN /\ ret' = [NoCall EXCEPT !.op = "init", !.size = dbs,
                                     !.sysfail = (dbs # 0 /\ ~calloc_ok)]
            /\ UNCHANGED <<arena, default_block_size>>
       ELSE /\ arena' = "live"
            /\ default_block_size' = StoredBlockSize(dbs)
            /\ ret' = [NoCall EXCEPT !.op = "init", !.size = dbs, !.ptr = 1,
                                     !.sysfail = ~calloc_ok]
  /\ UNCHANGED <<head, current, blocks, released, issued, fresh, vcursor>>

\* ----------------------------------------------------------- arena_alloc
\* The end of a call to arena_alloc: the arena as the call leaves it and the
\* pointer it returns (NULL on failure); created counts the blocks malloc'd.
AllocReturns(blks, rel, h, c, p, padding, created, size, alignment, sysfail) ==
  /\ blocks' = blks
  /\ released' = rel
  /\ head' = h
  /\ current' = c
  /\ ret' = [op |-> "alloc", size |-> size, alignment |-> alignment, ptr |-> p,
             padding |-> padding, created |-> created,
             used |-> IF ret.op = "reset" THEN ret.used ELSE 0,
             sysfail |-> sysfail]
  /\ issued' = IF p = NULL THEN issued
               ELSE Append(issued, [addr |-> p, size |-> size])
  /\ vcursor' = IF p = NULL \/ ~fresh THEN vcursor
                ELSE vcursor + align_up(data(blks[h]) + vcursor, alignment) + size
  /\ UNCHANGED <<arena, default_block_size, fresh>>

\* A growth that forgets to link the new block after the current one.
LinkNothing(blks, c, nb) == blks

\* arena->current->next = new_block
Link(blks, c, nb) == [blks EXCEPT ![c].next = nb]

\* From "Compute padding for alignment" on: blks[c] is arena->current.
AllocInCurrent(blks, rel, h, c, created, size, alignment) ==
  LET current_ptr == data(blks[c]) + blks[c].index
      padding == align_up(current_ptr, alignment)
      next_capacity == BlockSize(size, default_block_size)
  IN IF DoesNotFit(blks[c], padding, size)
       THEN \E m \in Malloc(HeaderSize + next_capacity, blks, rel) :
              IF m = NULL
                THEN AllocReturns(blks, rel, h, c, NULL, 0, created, size, alignment,
                                  TRUE)
                ELSE LET nb == Len(blks) + 1
                         linked == Append(Link(blks, c, nb),
                                          NewBlock(m, next_capacity))
                         pad2 == align_up(data(linked[nb]), alignment)
                     IN AllocReturns([linked EXCEPT ![nb] = Bump(@, pad2, size)],
                                     Append(rel, 0), h, nb,
                                     data(linked[nb]) + pad2, pad2,
                                     created + 1, size, alignment, FALSE)
       ELSE AllocReturns([blks EXCEPT ![c] = Bump(@, padding, size)], rel, h, c,
                         current_ptr + padding, padding, created, size, alignment,
                         FALSE)

\* An argument test that lets a request of no bytes through.
BadArgsNoSize(a, size, alignment) == a = "none" \/ alignment = 0

\* if (!arena || size == 0 || alignment == 0) return NULL;
BadArgs(a, size, alignment) == a = "none" \/ size = 0 \/ alignment = 0

arena_alloc(size, alignment) ==
  /\ arena \notin Gone
  /\ IF BadArgs(arena, size, alignment)
       THEN AllocReturns(blocks, released, head, current, NULL, 0, 0, size, alignment,
                         FALSE)
     ELSE IF NotPowerOfTwo(alignment)
       THEN AllocReturns(blocks, released, head, current, NULL, 0, 0, size, alignment,
                         FALSE)
     ELSE IF current = NULL
       THEN LET block_size == BlockSize(size, default_block_size)
            IN \E m \in Malloc(HeaderSize + block_size, blocks, released) :
                 IF m = NULL
                   THEN AllocReturns(blocks, released, head, current, NULL, 0, 0,
                                     size, alignment, TRUE)
                   ELSE AllocInCurrent(Append(blocks, NewBlock(m, block_size)),
                                       Append(released, 0),
                                       Len(blocks) + 1, Len(blocks) + 1, 1,
                                       size, alignment)
     ELSE AllocInCurrent(blocks, released, head, current, 0, size, alignment)

\* ----------------------------------------------------------- arena_reset
\* A reset that clears each block's capacity along with its index.
ResetShrinking(blks, chain) ==
  [i \in 1..Len(blks) |->
     IF \E k \in 1..Len(chain) : chain[k] = i
       THEN [blks[i] EXCEPT !.index = 0, !.capacity = 0] ELSE blks[i]]

\* A reset that rewinds the first block only.
ResetHeadOnly(blks, chain) ==
  [i \in 1..Len(blks) |->
     IF Len(chain) > 0 /\ chain[1] = i THEN [blks[i] EXCEPT !.index = 0] ELSE blks[i]]

\* A reset that rewinds every block and unlinks all but the first.
ResetDropTail(blks, chain) ==
  [i \in 1..Len(blks) |->
     IF \E k \in 1..Len(chain) : chain[k] = i
       THEN [blks[i] EXCEPT !.index = 0, !.next = NULL] ELSE blks[i]]

\* while (block) { block->index = 0; block = block->next; }
ResetBlocks(blks, chain) ==
  [i \in 1..Len(blks) |->
     IF \E k \in 1..Len(chain) : chain[k] = i
       THEN [blks[i] EXCEPT !.index = 0] ELSE blks[i]]

\* A reset that leaves current where it was.
ResetKeepCurrent(h, c) == c

\* arena->current = arena->head
ResetCurrent(h, c) == h

arena_reset ==
  /\ arena \notin Gone
  /\ ret' = [NoCall EXCEPT !.op = "reset",
                           !.used = IF arena = "live" /\ head # NULL
                                      THEN blocks[head].index ELSE 0]
  /\ IF arena = "none"
       THEN UNCHANGED <<blocks, current, issued, fresh, vcursor>>
       ELSE /\ blocks' = ResetBlocks(blocks, Chain)
            /\ current' = ResetCurrent(head, current)
            /\ issued' = <<>>
            /\ fresh' = FALSE
            /\ vcursor' = 0
  /\ UNCHANGED <<arena, head, default_block_size, released>>

\* ------------------------------------------------------------ arena_free
\* while (block) { next = block->next; free(block); block = next; } free(arena)
FreeBlocks(rel, chain) ==
  [i \in 1..Len(rel) |->
     rel[i] + Cardinality({k \in 1..Len(chain) : chain[k] = i})]

arena_free ==
  /\ arena \notin Gone
  /\ ret' = [NoCall EXCEPT !.op = "free"]
  /\ IF arena = "none"
       THEN UNCHANGED <<arena, released>>
       ELSE /\ released' = FreeBlocks(released, Chain)
            /\ arena' = "freed"
  /\ UNCHANGED <<head, current, default_block_size, blocks, issued, fresh, vcursor>>

Next ==
  \/ \E dbs \in DefaultSizes, calloc_ok \in BOOLEAN :
       arena_init(dbs, calloc_ok) /\ UNCHANGED elsewhere
  \/ \E size \in Sizes, alignment \in Alignments :
       arena_alloc(size, alignment) /\ UNCHANGED elsewhere
  \/ arena_reset /\ UNCHANGED elsewhere
  \/ arena_free /\ UNCHANGED elsewhere

Spec == Init /\ [][Next]_vars

\* ------------------------------------------------------------------------
\* arena_free on a handle that was freed before.  The handle is passed by
\* value, so the caller's pointer still holds the address and the test
\* if (!arena) does not see that the structure is gone.  Reading arena->head
\* from released memory is undefined: the old fields are still there and every
\* block and the structure go to free() once more ("stale"), the allocator has
\* overwritten head and only the structure is freed again ("cleared"), or the
\* process is killed (a wild pointer, or the allocator's double-free check).
FreedOutcomes == {"stale", "cleared", "killed"}

arena_free_freed(outcome) ==
  /\ arena = "freed"
  /\ ret' = [NoCall EXCEPT !.op = "free"]
  /\ arena' = IF outcome = "killed" THEN "crashed" ELSE "freed twice"
  /\ released' = IF outcome = "stale" THEN FreeBlocks(released, Chain) ELSE released
  /\ UNCHANGED <<head, current, default_block_size, blocks, issued, fresh, vcursor>>

NextFreed ==
  \/ Next
  \/ \E outcome \in FreedOutcomes : arena_free_freed(outcome) /\ UNCHANGED elsewhere

SpecFreed == Init /\ [][NextFreed]_vars

\* ------------------------------------------------------------------------
\* Checkpoint and restore.  arena.h defines neither arena_checkpoint nor
\* arena_restore; README.md and example/main.c call them.  They are modelled
\* from section 4.4 of the specification; arena_alloc is the code's.
\* "the identity of the block that was current at capture time, and that
\* block's index at capture time"
Checkpoint(c, blks) ==
  [block |-> c, index |-> IF c = NULL THEN 0 ELSE blks[c].index]

\* The captured block's index goes back to the captured value; every block
\* created after the captured block gets index 0 (block ids are in creation
\* order); the other blocks are untouched.  A checkpoint captured before any
\* block existed restores as a full reset.
RestoreBlocks(blks, chain, cp) ==
  IF cp.block = NULL THEN ResetBlocks(blks, chain)
  ELSE [i \in 1..Len(blks) |->
          IF i = cp.block THEN [blks[i] EXCEPT !.index = cp.index]
          ELSE IF i > cp.block THEN [blks[i] EXCEPT !.index = 0]
          ELSE blks[i]]

\* "Sets current back to the captured block."
RestoreCurrent(h, cp) == IF cp.block = NULL THEN h ELSE cp.block

arena_restore(cp) ==
  /\ arena = "live"
  /\ blocks' = RestoreBlocks(blocks, Chain, cp)
  /\ current' = RestoreCurrent(head, cp)
  /\ ret' = [NoCall EXCEPT !.op = "restore"]
  /\ UNCHANGED <<arena, head, default_block_size, released, issued, fresh, vcursor>>

\* The requests of the program: valid sizes and alignments.
ValidSizes == Sizes \ {0}
ValidAlignments == {a \in Alignments : a # 0 /\ ~NotPowerOfTwo(a)}

Request(size, alignment, p) == [size |-> size, alignment |-> alignment, ptr |-> p]

\* Demo 3 of example/main.c, with the allocations repeated after each restore
\* (the nested checkpoint scenario of section 8): before it the arena is
\* brought to any state by init, alloc and reset.
Before ==
  /\ step = "run"
  /\ \/ \E dbs \in DefaultSizes \ {0} : arena_init(dbs, TRUE)
     \/ \E size \in ValidSizes, alignment \in ValidAlignments :
          arena_alloc(size, alignment)
     \/ arena_reset
  /\ UNCHANGED elsewhere

\* ArenaCheckpoint outer_cp = arena_checkpoint(arena);
TakeOuter ==
  /\ step = "run" /\ arena = "live"
  /\ outer_cp' = Checkpoint(current, blocks)
  /\ step' = "outer_cp"
  /\ ret' = [NoCall EXCEPT !.op = "checkpoint"]
  /\ UNCHANGED <<arena, head, current, default_block_size, blocks, released,
                 issued, fresh, vcursor, inner_cp, outer_data, inner_data,
                 arenas, store, threads, arrayd, acall, replay, probe>>

\* char *outer_data = arena_alloc(arena, ...);
AllocOuter ==
  /\ step = "outer_cp"
  /\ \E size \in ValidSizes, alignment \in ValidAlignments :
       /\ arena_alloc(size, alignment)
       /\ outer_data' = Request(size, alignment, ret'.ptr)
  /\ step' = "outer_data"
  /\ UNCHANGED <<outer_cp, inner_cp, inner_data, arenas, store, threads, arrayd, acall, replay, probe>>

\* ArenaCheckpoint inner_cp = arena_checkpoint(arena);
TakeInner ==
  /\ step = "outer_data"
  /\ inner_cp' = Checkpoint(current, blocks)
  /\ step' = "inner_cp"
  /\ ret' = [NoCall EXCEPT !.op = "checkpoint"]
  /\ UNCHANGED <<arena, head, current, default_block_size, blocks, released,
                 issued, fresh, vcursor, outer_cp, outer_data, inner_data,
                 arenas, store, threads, arrayd, acall, replay, probe>>

\* char *inner_data = arena_alloc(arena, ...);
AllocInner ==
  /\ step = "inner_cp"
  /\ \E size \in ValidSizes, alignment \in ValidAlignments :
       /\ arena_alloc(size, alignment)
       /\ inner_data' = Request(size, alignment, ret'.ptr)
  /\ step' = "inner_data"
  /\ UNCHANGED <<outer_cp, inner_cp, outer_data, arenas, store, threads, arrayd, acall, replay, probe>>

\* arena_restore(arena, inner_cp);
RestoreInner ==
  /\ step = "inner_data"
  /\ arena_restore(inner_cp)
  /\ step' = "inner_restored"
  /\ UNCHANGED <<outer_cp, inner_cp, outer_data, inner_data, arenas, store, threads, arrayd, acall, replay, probe>>

\* The request of inner_data again.
AgainInner ==
  /\ step = "inner_restored"
  /\ arena_alloc(inner_data.size, inner_data.alignment)
  /\ step' = "inner_again"
  /\ UNCHANGED <<outer_cp, inner_cp, outer_data, inner_data, arenas, store, threads, arrayd, acall, replay, probe>>

\* arena_restore(arena, outer_cp);
RestoreOuter ==
  /\ step = "inner_again"
  /\ arena_restore(outer_cp)
  /\ step' = "outer_restored"
  /\ UNCHANGED <<outer_cp, inner_cp, outer_data, inner_data, arenas, store, threads, arrayd, acall, replay, probe>>

\* The request of outer_data again, then that of inner_data.
AgainOuter ==
  /\ step = "outer_restored"
  /\ arena_alloc(outer_data.size, outer_data.alignment)
  /\ step' = "outer_again"
  /\ UNCHANGED <<outer_cp, inner_cp, outer_data, inner_data, arenas, store, threads, arrayd, acall, replay, probe>>

AgainBoth ==
  /\ step = "outer_again"
  /\ arena_alloc(inner_data.size, inner_data.alignment)
  /\ step' = "both_again"
  /\ UNCHANGED <<outer_cp, inner_cp, outer_data, inner_data, arenas, store, threads, arrayd, acall, replay, probe>>

NextCheckpoint ==
  \/ Before
  \/ TakeOuter
  \/ AllocOuter
  \/ TakeInner
  \/ AllocInner
  \/ RestoreInner
  \/ AgainInner
  \/ RestoreOuter
  \/ AgainOuter
  \/ AgainBoth

SpecCheckpoint == Init /\ [][NextCheckpoint]_vars

\* ------------------------------------------------------------------------
\* Two threads calling the arena functions (arena.h:298-394).  A statement
\* that reads or writes memory another thread can reach is one step; the
\* struct Arena objects and the blocks are in memory all threads share, the
\* parameters and locals of a call are the thread's own.  Blocks are named by
\* their address.
Threads == {1, 2}

ThreadSizes == {WordSize}
ThreadAlignments == {1, 16}
ThreadDefaults == {2 * WordSize}

\* The state of the other specifications, which the threads' program leaves.
sequential == <<arena, head, current, default_block_size, blocks, released, ret,
                issued, fresh, vcursor, step, outer_cp, inner_cp, outer_data,
                inner_data, arrayd, acall, replay, probe>>

NoArena == [state |-> "none", head |-> NULL, current |-> NULL,
            default_block_size |-> 0]

\* calloc(1, sizeof(Arena)), then arena->default_block_size = ...
NewArena(dbs) == [NoArena EXCEPT !.state = "live", !.default_block_size = dbs]

\* A thread that holds the handle a, is in no call and makes n calls.  out: the allocations
\* its calls returned; raced: one of its calls began while another thread
\* was inside a call; began, got, gave: the arena and the store when its call
\* began, what malloc returned to the call and what the call passed to free.
Idle(a, n) ==
  [pc |-> "idle", arena |-> a, limit |-> n, op |-> "none", size |-> 0, alignment |-> 0,
   block |-> NULL, padding |-> 0, ptr |-> NULL, calls |-> 0, out |-> <<>>,
   raced |-> FALSE, began |-> [arena |-> NoArena, store |-> <<>>],
   got |-> <<>>, gave |-> <<>>]

\* A handle that is one process-wide arena, whatever the caller passes.
HandleSingleton(thr, t) == 1

\* The Arena *arena argument of thread t's calls.
Handle(thr, t) == thr[t].arena

\* The store with the block b at address m.
Put(st, m, b) == [x \in DOMAIN st \cup {m} |-> IF x = m THEN b ELSE st[x]]

\* free(m)
Drop(st, m) == [x \in DOMAIN st \ {m} |-> st[x]]

\* The addresses at which a chunk of n bytes fits on the heap all threads
\* share.
Fits(n, st) ==
  {a \in HeapBases :
     /\ a + n <= HeapEnd
     /\ \A x \in DOMAIN st : a + n <= x \/ ChunkEnd(st[x]) <= a}

\* malloc(n): NULL, or the lowest address at which the chunk fits.
HeapMalloc(n, st) ==
  {NULL} \cup {a \in Fits(n, st) : \A b \in Fits(n, st) : a <= b}

RECURSIVE HeapChain(_, _, _)
HeapChain(b, st, fuel) ==
  IF b = NULL \/ fuel = 0 \/ b \notin DOMAIN st THEN <<>>
  ELSE <<b>> \o HeapChain(st[b].next, st, fuel - 1)

\* The blocks reachable from the head of the arena A.
ChainOf(A, st) == HeapChain(A.head, st, Cardinality(DOMAIN st))

InChain(A, st) == {ChainOf(A, st)[k] : k \in 1..Len(ChainOf(A, st))}

\* Thread t is between two calls and has one more to make.
MayCall(t) == threads[t].pc = "idle" /\ threads[t].calls < threads[t].limit

OthersInCall(t) == \E u \in Threads \ {t} : threads[u].pc # "idle"

\* Thread t enters a call.
Enters(t, op, size, alignment) ==
  [threads[t] EXCEPT !.op = op, !.size = size, !.alignment = alignment,
                     !.block = NULL, !.padding = 0, !.ptr = NULL,
                     !.raced = @ \/ OthersInCall(t),
                     !.began = [arena |-> arenas[Handle(threads, t)],
                                store |-> store],
                     !.got = <<>>, !.gave = <<>>]

\* Thread t's call returns p.
Leaves(T, p) == [T EXCEPT !.pc = "idle", !.ptr = p, !.calls = @ + 1]

\* -- arena_init
thread_init(t, dbs, calloc_ok) ==
  LET a == Handle(threads, t)
      T == Enters(t, "init", dbs, 0)
  IN /\ MayCall(t) /\ arenas[a].state = "none"
     /\ IF InitFails(dbs, calloc_ok)
          THEN /\ threads' = [threads EXCEPT ![t] = Leaves(T, NULL)]
               /\ UNCHANGED arenas
          ELSE /\ threads' = [threads EXCEPT ![t] = Leaves(T, 1)]
               /\ arenas' = [arenas EXCEPT ![a] = NewArena(StoredBlockSize(dbs))]
     /\ UNCHANGED <<store, sequential>>

\* -- arena_alloc
\* if (!arena || size == 0 || alignment == 0) ...; if (alignment & ...) ...
alloc_call(t, size, alignment) ==
  LET a == Handle(threads, t)
      T == Enters(t, "alloc", size, alignment)
  IN /\ MayCall(t) /\ arenas[a].state \notin Gone
     /\ threads' = [threads EXCEPT ![t] =
          IF BadArgs(arenas[a].state, size, alignment) \/ NotPowerOfTwo(alignment)
            THEN Leaves(T, NULL) ELSE [T EXCEPT !.pc = "lazy"]]
     /\ UNCHANGED <<arenas, store, sequential>>

\* if (!arena->current)
alloc_lazy(t) ==
  LET a == Handle(threads, t)
  IN /\ threads[t].pc = "lazy"
     /\ threads' = [threads EXCEPT ![t].pc =
          IF arenas[a].current = NULL THEN "first_malloc" ELSE "align"]
     /\ UNCHANGED <<arenas, store, sequential>>

\* block = malloc(...); if (!block) return NULL; block->next = NULL; ...
\* (also new_block = malloc(...) of the growth, from pc "grow_malloc")
alloc_malloc(t) ==
  LET a == Handle(threads, t)
      T == threads[t]
      block_size == BlockSize(T.size, arenas[a].default_block_size)
  IN /\ T.pc \in {"first_malloc", "grow_malloc"}
     /\ \E m \in HeapMalloc(HeaderSize + block_size, store) :
          IF m = NULL
            THEN /\ threads' = [threads EXCEPT ![t] =
                      Leaves([T EXCEPT !.got = Append(@, m)], NULL)]
                 /\ UNCHANGED store
            ELSE /\ threads' = [threads EXCEPT
                      ![t].pc = IF T.pc = "first_malloc" THEN "first_link"
                                ELSE "grow_link",
                      ![t].block = m, ![t].got = Append(@, m)]
                 /\ store' = Put(store, m, NewBlock(m, block_size))
     /\ UNCHANGED <<arenas, sequential>>

\* arena->head = arena->current = block;
alloc_first_link(t) ==
  LET a == Handle(threads, t)
  IN /\ threads[t].pc = "first_link"
     /\ arenas' = [arenas EXCEPT ![a].head = threads[t].block,
                                 ![a].current = threads[t].block]
     /\ threads' = [threads EXCEPT ![t].pc = "align"]
     /\ UNCHANGED <<store, sequential>>

\* current_ptr = arena->current->data + arena->current->index;
\* padding = align_up(current_ptr, alignment);
alloc_align(t) ==
  LET a == Handle(threads, t)
      c == arenas[a].current
  IN /\ threads[t].pc = "align"
     /\ threads' = [threads EXCEPT ![t].pc = "fit",
          ![t].padding = align_up(data(store[c]) + store[c].index,
                                  threads[t].alignment)]
     /\ UNCHANGED <<arenas, store, sequential>>

\* if (arena->current->index + padding + size > arena->current->capacity)
alloc_fit(t) ==
  LET a == Handle(threads, t)
      c == arenas[a].current
  IN /\ threads[t].pc = "fit"
     /\ threads' = [threads EXCEPT ![t].pc =
          IF DoesNotFit(store[c], threads[t].padding, threads[t].size)
            THEN "grow_malloc" ELSE "bump_padding"]
     /\ UNCHANGED <<arenas, store, sequential>>

\* arena->current->next = new_block;
alloc_grow_link(t) ==
  LET a == Handle(threads, t)
  IN /\ threads[t].pc = "grow_link"
     /\ store' = Link(store, arenas[a].current, threads[t].block)
     /\ threads' = [threads EXCEPT ![t].pc = "grow_current"]
     /\ UNCHANGED <<arenas, sequential>>

\* arena->current = new_block; current_ptr = new_block->data; padding = ...
alloc_grow_current(t) ==
  LET a == Handle(threads, t)
      nb == threads[t].block
  IN /\ threads[t].pc = "grow_current"
     /\ arenas' = [arenas EXCEPT ![a].current = nb]
     /\ threads' = [threads EXCEPT ![t].pc = "bump_padding",
          ![t].padding = align_up(data(store[nb]), threads[t].alignment)]
     /\ UNCHANGED <<store, sequential>>

\* arena->current->index += padding;
alloc_bump_padding(t) ==
  LET a == Handle(threads, t)
      c == arenas[a].current
  IN /\ threads[t].pc = "bump_padding"
     /\ store' = [store EXCEPT ![c] = Bump(@, threads[t].padding, 0)]
     /\ threads' = [threads EXCEPT ![t].pc = "take"]
     /\ UNCHANGED <<arenas, sequential>>

\* void *ptr = arena->current->data + arena->current->index;
alloc_take(t) ==
  LET a == Handle(threads, t)
      c == arenas[a].current
  IN /\ threads[t].pc = "take"
     /\ threads' = [threads EXCEPT ![t].pc = "bump_size",
                                   ![t].ptr = data(store[c]) + store[c].index,
                                   ![t].block = c]
     /\ UNCHANGED <<arenas, store, sequential>>

\* arena->current->index += size; return ptr;
alloc_bump_size(t) ==
  LET a == Handle(threads, t)
      c == arenas[a].current
      T == threads[t]
  IN /\ T.pc = "bump_size"
     /\ store' = [store EXCEPT ![c] = Bump(@, 0, T.size)]
     /\ threads' = [threads EXCEPT ![t] =
          Leaves([T EXCEPT !.out = Append(@, [addr |-> T.ptr, size |-> T.size,
                                              padding |-> T.padding,
                                              block |-> T.block])],
                 T.ptr)]
     /\ UNCHANGED <<arenas, sequential>>

thread_alloc(t) ==
  \/ \E size \in {0} \cup ThreadSizes, alignment \in ThreadAlignments :
       alloc_call(t, size, alignment)
  \/ alloc_lazy(t)
  \/ alloc_malloc(t)
  \/ alloc_first_link(t)
  \/ alloc_align(t)
  \/ alloc_fit(t)
  \/ alloc_grow_link(t)
  \/ alloc_grow_current(t)
  \/ alloc_bump_padding(t)
  \/ alloc_take(t)
  \/ alloc_bump_size(t)

\* -- arena_reset
\* if (!arena) return; struct ArenaBlock *block = arena->head;
reset_call(t) ==
  LET a == Handle(threads, t)
      T == Enters(t, "reset", 0, 0)
  IN /\ MayCall(t) /\ arenas[a].state \notin Gone
     /\ threads' = [threads EXCEPT ![t] =
          IF arenas[a].state = "none" THEN Leaves(T, NULL)
          ELSE [T EXCEPT !.pc = "reset_loop", !.block = arenas[a].head]]
     /\ UNCHANGED <<arenas, store, sequential>>

\* while (block) { block->index = 0; block = block->next; }
\* arena->current = arena->head;
reset_loop(t) ==
  LET a == Handle(threads, t)
      T == threads[t]
  IN /\ T.pc = "reset_loop"
     /\ IF T.block # NULL
          THEN /\ store' = [store EXCEPT ![T.block].index = 0]
               /\ threads' = [threads EXCEPT ![t].block = store[T.block].next]
               /\ UNCHANGED arenas
          ELSE /\ arenas' = [arenas EXCEPT ![a].current = arenas[a].head]
               /\ threads' = [threads EXCEPT ![t] = Leaves(T, NULL)]
               /\ UNCHANGED store
     /\ UNCHANGED sequential

thread_reset(t) == reset_call(t) \/ reset_loop(t)

\* -- arena_free
\* if (!arena) return; struct ArenaBlock *block = arena->head;
free_call(t) ==
  LET a == Handle(threads, t)
      T == Enters(t, "free", 0, 0)
  IN /\ MayCall(t) /\ arenas[a].state \notin Gone
     /\ threads' = [threads EXCEPT ![t] =
          IF arenas[a].state = "none" THEN Leaves(T, NULL)
          ELSE [T EXCEPT !.pc = "free_loop", !.block = arenas[a].head]]
     /\ UNCHANGED <<arenas, store, sequential>>

\* while (block) { next = block->next; free(block); block = next; }
\* free(arena);
free_loop(t) ==
  LET a == Handle(threads, t)
      T == threads[t]
  IN /\ T.pc = "free_loop"
     /\ IF T.block # NULL
          THEN /\ store' = Drop(store, T.block)
               /\ threads' = [threads EXCEPT ![t].block = store[T.block].next,
                                             ![t].gave = Append(@, T.block)]
               /\ UNCHANGED arenas
          ELSE /\ arenas' = [arenas EXCEPT ![a].state = "freed"]
               /\ threads' = [threads EXCEPT ![t] = Leaves(T, NULL)]
               /\ UNCHANGED store
     /\ UNCHANGED sequential

thread_free(t) == free_call(t) \/ free_loop(t)

\* -- the calls run from entry to return with no other thread's step between:
\* A and S are the arena and the store when the call begins, got what malloc
\* returns to it, in order.
Outcome(A, S, p) == [arena |-> A, store |-> S, ptr |-> p]

\* From "Compute padding for alignment" on.
AloneInCurrent(A, S, size, alignment, got) ==
  LET c == A.current
      padding == align_up(data(S[c]) + S[c].index, alignment)
      block_size == BlockSize(size, A.default_block_size)
  IN IF DoesNotFit(S[c], padding, size)
       THEN IF got[1] = NULL THEN Outcome(A, S, NULL)
            ELSE LET nb == NewBlock(got[1], block_size)
                     pad == align_up(data(nb), alignment)
                 IN Outcome([A EXCEPT !.current = got[1]],
                            Put(Link(S, c, got[1]), got[1], Bump(nb, pad, size)),
                            data(nb) + pad)
       ELSE Outcome(A, [S EXCEPT ![c] = Bump(@, padding, size)],
                    data(S[c]) + S[c].index + padding)

AllocAlone(A, S, size, alignment, got) ==
  IF BadArgs(A.state, size, alignment) \/ NotPowerOfTwo(alignment)
    THEN Outcome(A, S, NULL)
  ELSE IF A.current # NULL THEN AloneInCurrent(A, S, size, alignment, got)
  ELSE IF got[1] = NULL THEN Outcome(A, S, NULL)
  ELSE AloneInCurrent([A EXCEPT !.head = got[1], !.current = got[1]],
                      Put(S, got[1],
                          NewBlock(got[1], BlockSize(size, A.default_block_size))),
                      size, alignment, Tail(got))

ResetAlone(A, S) ==
  IF A.state = "none" THEN Outcome(A, S, NULL)
  ELSE Outcome([A EXCEPT !.current = A.head],
               [x \in DOMAIN S |->
                  IF x \in InChain(A, S) THEN [S[x] EXCEPT !.index = 0] ELSE S[x]],
               NULL)

FreeAlone(A, S) ==
  IF A.state = "none" THEN Outcome(A, S, NULL)
  ELSE Outcome([A EXCEPT !.state = "freed"],
               [x \in DOMAIN S \ InChain(A, S) |-> S[x]], NULL)

InitAlone(A, S, dbs) ==
  IF InitFails(dbs, TRUE) THEN Outcome(A, S, NULL)
  ELSE Outcome(NewArena(StoredBlockSize(dbs)), S, 1)

\* What the call thread T is in, or has just returned from, does alone.
Alone(T) ==
  LET A == T.began.arena
      S == T.began.store
  IN CASE T.op = "init" -> InitAlone(A, S, T.size)
       [] T.op = "alloc" -> AllocAlone(A, S, T.size, T.alignment, T.got)
       [] T.op = "reset" -> ResetAlone(A, S)
       [] T.op = "free" -> FreeAlone(A, S)

\* The blocks the arena A owns: the chain of a live arena, and what is left
\* of the chain while thread T is freeing it.
Owned(A, T, st) ==
  IF T.pc = "free_loop" THEN
    {HeapChain(T.block, st, Cardinality(DOMAIN st))[k] :
       k \in 1..Len(HeapChain(T.block, st, Cardinality(DOMAIN st)))}
  ELSE IF A.state = "live" THEN InChain(A, st)
  ELSE {}

\* One arena per thread: thread t holds the handle t, and makes MaxCalls calls.
InitOwn ==
  /\ ArenaAbsent
  /\ arenas = [a \in Threads |-> NoArena]
  /\ store = <<>>
  /\ threads = [t \in Threads |-> Idle(t, MaxCalls)]
  /\ ArraydAbsent
  /\ ReplayAbsent
  /\ ProbeAbsent

NextOwn ==
  \E t \in Threads :
    \/ \E dbs \in ThreadDefaults : thread_init(t, dbs, TRUE)
    \/ thread_alloc(t)
    \/ thread_reset(t)
    \/ thread_free(t)

SpecOwn == InitOwn /\ [][NextOwn]_vars

\* One arena, initialised before the threads start, that both threads
\* allocate from with no lock.
InitShared ==
  /\ ArenaAbsent
  /\ \E dbs \in ThreadDefaults : arenas = [a \in {1} |-> NewArena(dbs)]
  /\ store = <<>>
  /\ threads = [t \in Threads |-> Idle(1, MaxSharedCalls)]
  /\ ArraydAbsent
  /\ ReplayAbsent
  /\ ProbeAbsent

NextShared == \E t \in Threads : thread_alloc(t)

SpecShared == InitShared /\ [][NextShared]_vars

\* ------------------------------------------------------------------------
\* arrayd.h: a growable array of pointers.  The slot data[k] of the code is
\* data[k + 1] here; assert(cond) with cond false ends the program.
Pointers == {NULL, 1, 2}
InitialLengths == {-1, 0, 1, 2}
Indices == 0..MaxLength

\* What the arrayd calls never touch.
arenaside == <<arena, head, current, default_block_size, blocks, released, ret,
               issued, fresh, vcursor, step, outer_cp, inner_cp, outer_data,
               inner_data, arenas, store, threads, replay, probe>>

ArraydCall(op, index, p, returned, r) ==
  [op |-> op, index |-> index, data |-> p, returned |-> returned, ret |-> r,
   before |-> arrayd]

\* The call ends in abort().
ArraydAborts(op, index, p) ==
  /\ arrayd' = [arrayd EXCEPT !.state = "aborted"]
  /\ acall' = ArraydCall(op, index, p, FALSE, 0)

\* A length test that lets zero through.
InvalidLengthNegative(initial_length) == initial_length < 0

\* assert(initial_length > 0 && "initial_length must be positive") fails
InvalidLength(initial_length) == ~(initial_length > 0)

\* arrayd_new: assert(initial_length > 0); calloc; malloc; both asserted.
arrayd_new(initial_length, alloc_ok) ==
  /\ arrayd.state = "none"
  /\ IF InvalidLength(initial_length) \/ ~alloc_ok
       THEN ArraydAborts("new", initial_length, NULL)
       ELSE /\ arrayd' = [state |-> "live",
                          data |-> [k \in 1..initial_length |-> Garbage],
                          length |-> initial_length, index |-> 0]
            /\ acall' = ArraydCall("new", initial_length, NULL, TRUE, 1)
  /\ UNCHANGED arenaside

\* A growth by one slot.
NewLengthPlusOne(length) == length + 1

\* size_t new_length = arr->length * 2;
NewLength(length) == length * 2

\* A growth that allocates a new array and copies nothing.
ResizedFresh(slots, new_length) == [k \in 1..new_length |-> Garbage]

\* realloc(arr->data, new_length * sizeof(void *)): the old slots keep their
\* contents.
Resized(slots, new_length) ==
  [k \in 1..new_length |-> IF k <= Len(slots) THEN slots[k] ELSE Garbage]

\* A store that writes nothing.
StoredNothing(slots, index, p) == slots

\* arr->data[index] = data
Stored(slots, index, p) ==
  [k \in 1..Len(slots) |-> IF k = index + 1 THEN p ELSE slots[k]]

\* arrayd->data[index]
Slot(slots, index) == IF index < Len(slots) THEN slots[index + 1] ELSE Garbage

\* A bounds test that lets the index one past the last element through.
OutOfBoundsInclusive(index, count) == index > count

\* assert(index < arr->index && "Index out of bounds") fails
OutOfBounds(index, count) == ~(index < count)

\* A removal that moves nothing.
ShiftedNothing(slots, count, index) == slots

\* memmove(&arr->data[index], &arr->data[index + 1],
\*         (arr->index - index - 1) * sizeof(void *))
Shifted(slots, count, index) ==
  [k \in 1..Len(slots) |->
     IF index <= k - 1 /\ k - 1 < count - 1 THEN slots[k + 1] ELSE slots[k]]

arrayd_append(p, realloc_ok) ==
  /\ arrayd.state = "live"
  /\ arrayd.length <= arrayd.index => NewLength(arrayd.length) <= MaxLength
  /\ IF arrayd.length <= arrayd.index
       THEN IF ~realloc_ok
              THEN ArraydAborts("append", arrayd.index, p)
              ELSE /\ arrayd' = [arrayd EXCEPT
                        !.length = NewLength(arrayd.length),
                        !.data = Stored(Resized(arrayd.data, NewLength(arrayd.length)),
                                        arrayd.index, p),
                        !.index = @ + 1]
                   /\ acall' = ArraydCall("append", arrayd.index, p, TRUE, 0)
       ELSE /\ realloc_ok
            /\ arrayd' = [arrayd EXCEPT
                 !.data = Stored(arrayd.data, arrayd.index, p), !.index = @ + 1]
            /\ acall' = ArraydCall("append", arrayd.index, p, TRUE, 0)
  /\ UNCHANGED arenaside

arrayd_put_at(index, p) ==
  /\ arrayd.state = "live"
  /\ IF OutOfBounds(index, arrayd.index)
       THEN ArraydAborts("put_at", index, p)
       ELSE /\ arrayd' = [arrayd EXCEPT !.data = Stored(@, index, p)]
            /\ acall' = ArraydCall("put_at", index, p, TRUE, 0)
  /\ UNCHANGED arenaside

arrayd_remove_at(index) ==
  /\ arrayd.state = "live"
  /\ IF OutOfBounds(index, arrayd.index)
       THEN ArraydAborts("remove_at", index, NULL)
       ELSE /\ arrayd' = [arrayd EXCEPT
                 !.data = Shifted(@, arrayd.index, index), !.index = @ - 1]
            /\ acall' = ArraydCall("remove_at", index, NULL, TRUE, 0)
  /\ UNCHANGED arenaside

arrayd_count ==
  /\ arrayd.state = "live"
  /\ acall' = ArraydCall("count", 0, NULL, TRUE, arrayd.index)
  /\ UNCHANGED <<arrayd, arenaside>>

\* free(arrayd->data); free(arrayd);
arrayd_clear ==
  /\ arrayd.state = "live"
  /\ arrayd' = [NoArrayd EXCEPT !.state = "cleared"]
  /\ acall' = ArraydCall("clear", 0, NULL, TRUE, 0)
  /\ UNCHANGED arenaside

arrayd_get(index) ==
  /\ arrayd.state = "live"
  /\ IF OutOfBounds(index, arrayd.index)
       THEN ArraydAborts("get", index, NULL)
       ELSE /\ acall' = ArraydCall("get", index, NULL, TRUE,
                                   Slot(arrayd.data, index))
            /\ UNCHANGED arrayd
  /\ UNCHANGED arenaside

NextArrayd ==
  \/ \E initial_length \in InitialLengths, alloc_ok \in BOOLEAN :
       arrayd_new(initial_length, alloc_ok)
  \/ \E p \in Pointers, realloc_ok \in BOOLEAN : arrayd_append(p, realloc_ok)
  \/ \E index \in Indices, p \in Pointers : arrayd_put_at(index, p)
  \/ \E index \in Indices : arrayd_remove_at(index)
  \/ arrayd_count
  \/ arrayd_clear
  \/ \E index \in Indices : arrayd_get(index)

SpecArrayd == Init /\ [][NextArrayd]_vars

\* ------------------------------------------------------------------------
\* Reset for reuse (README.md, "How It Works" 3): a program that initialises
\* an arena, makes up to MaxRequests requests, resets the arena and makes the
\* same requests again, in the same order.
replayside == <<step, outer_cp, inner_cp, outer_data, inner_data, arenas, store,
                threads, arrayd, acall, probe>>

ReplayInit ==
  /\ \E dbs \in DefaultSizes : arena_init(dbs, TRUE)
  /\ UNCHANGED <<replay, replayside>>

ReplayFirst ==
  /\ replay.phase = "first" /\ arena = "live"
  /\ Len(replay.requests) < MaxRequests
  /\ \E size \in ValidSizes, alignment \in ValidAlignments :
       /\ arena_alloc(size, alignment)
       /\ replay' = [replay EXCEPT !.requests =
                       Append(@, [size |-> size, alignment |-> alignment])]
  /\ UNCHANGED replayside

ReplayReset ==
  /\ replay.phase = "first" /\ arena = "live"
  /\ arena_reset
  /\ replay' = [replay EXCEPT !.phase = "again", !.owned = Len(Chain)]
  /\ UNCHANGED replayside

ReplayAgain ==
  /\ replay.phase = "again" /\ replay.done < Len(replay.requests)
  /\ arena_alloc(replay.requests[replay.done + 1].size,
                 replay.requests[replay.done + 1].alignment)
  /\ replay' = [replay EXCEPT !.done = @ + 1]
  /\ UNCHANGED replayside

NextReplay == ReplayInit \/ ReplayFirst \/ ReplayReset \/ ReplayAgain

SpecReplay == Init /\ [][NextReplay]_vars

\* ------------------------------------------------------------------------
\* The first definitions in arena.h (static inline, lines 36-124): arena_alloc
\* tests neither the alignment nor its being a power of two, arena_reset and
\* arena_free do not test the handle.  arena_init is the same code.
\* size_t and uintptr_t arithmetic wraps; the width is scaled to the modelled
\* address space (every heap address is below SizeMod).
SizeMod == 256

Wrap(x) == x % SizeMod

InlineAlignments == {0, 3, 16}

\* current_ptr % alignment.  With alignment == 0 the behaviour is undefined:
\* the division traps (x86) or does not; where it does not trap the quotient
\* is 0 and the remainder is the dividend (AArch64, RISC-V).
Remainder(x, alignment) == IF alignment = 0 THEN x ELSE x % alignment

\* A padding without the test for an aligned cursor.
InlinePaddingAlways(ptr, alignment) ==
  Wrap(alignment + SizeMod - Remainder(ptr, alignment))

\* (offset == 0) ? 0 : (alignment - offset)
InlinePadding(ptr, alignment) ==
  LET offset == Remainder(ptr, alignment)
  IN IF offset = 0 THEN 0 ELSE Wrap(alignment + SizeMod - offset)

\* arena->current->index += padding; ptr = data + index; index += size
InlineBump(b, padding, size) == [b EXCEPT !.index = Wrap(Wrap(@ + padding) + size)]

\* The end of a call to the inline arena_alloc.
InlineReturns(blks, rel, h, c, p, padding, created, size, alignment, sysfail) ==
  /\ blocks' = blks
  /\ released' = rel
  /\ head' = h
  /\ current' = c
  /\ ret' = [op |-> "alloc", size |-> size, alignment |-> alignment, ptr |-> p,
             padding |-> padding, created |-> created, used |-> 0,
             sysfail |-> sysfail]
  /\ UNCHANGED <<arena, default_block_size, issued, fresh, vcursor>>

\* The process is killed by a fault (SIGFPE, SIGSEGV) in the middle of a call;
\* blks, h, c are what the call had written before.
Faults(op, blks, rel, h, c, created, size, alignment) ==
  /\ arena' = "crashed"
  /\ blocks' = blks
  /\ released' = rel
  /\ head' = h
  /\ current' = c
  /\ ret' = [NoCall EXCEPT !.op = op, !.size = size, !.alignment = alignment,
                           !.created = created]
  /\ UNCHANGED <<default_block_size, issued, fresh, vcursor>>

\* From "Align the current index" on: blks[c] is arena->current.
InlineInCurrent(blks, rel, h, c, created, size, alignment, traps) ==
  LET current_ptr == Wrap(data(blks[c]) + blks[c].index)
      padding == InlinePadding(current_ptr, alignment)
      next_capacity == BlockSize(size, default_block_size)
  IN IF alignment = 0 /\ traps
       THEN Faults("alloc", blks, rel, h, c, created, size, alignment)
     ELSE IF Wrap(blks[c].index + size + padding) > blks[c].capacity
       THEN \E m \in Malloc(HeaderSize + next_capacity, blks, rel) :
              IF m = NULL
                THEN InlineReturns(blks, rel, h, c, NULL, 0, created, size,
                                   alignment, TRUE)
                ELSE LET nb == Len(blks) + 1
                         linked == Append(Link(blks, c, nb),
                                          NewBlock(m, next_capacity))
                         pad2 == InlinePadding(data(linked[nb]), alignment)
                     IN InlineReturns(
                          [linked EXCEPT ![nb] = InlineBump(@, pad2, size)],
                          Append(rel, 0), h, nb,
                          Wrap(data(linked[nb]) + pad2), pad2,
                          created + 1, size, alignment, FALSE)
       ELSE InlineReturns([blks EXCEPT ![c] = InlineBump(@, padding, size)], rel, h, c,
                          Wrap(current_ptr + padding), padding, created, size,
                          alignment, FALSE)

\* traps: whether a division by zero traps on this build.
arena_alloc_inline(size, alignment, traps) ==
  /\ arena \notin Gone
  /\ IF arena = "none" \/ size = 0
       THEN InlineReturns(blocks, released, head, current, NULL, 0, 0, size,
                          alignment, FALSE)
     ELSE IF current = NULL
       THEN LET block_size == BlockSize(size, default_block_size)
            IN \E m \in Malloc(HeaderSize + block_size, blocks, released) :
                 IF m = NULL
                   THEN InlineReturns(blocks, released, head, current, NULL, 0, 0,
                                      size, alignment, TRUE)
                   ELSE InlineInCurrent(Append(blocks, NewBlock(m, block_size)),
                                        Append(released, 0),
                                        Len(blocks) + 1, Len(blocks) + 1, 1,
                                        size, alignment, traps)
     ELSE InlineInCurrent(blocks, released, head, current, 0, size, alignment, traps)

\* arena->head with arena == NULL is undefined behaviour: the access faults
\* (faults = TRUE), or address 0 is mapped and the call goes on with what it
\* reads there, of which only the harmless reading (no block) is modelled.
arena_reset_inline(faults) ==
  /\ arena \notin Gone
  /\ IF arena = "none"
       THEN IF faults
              THEN Faults("reset", blocks, released, head, current, 0, 0, 0)
              ELSE /\ ret' = [NoCall EXCEPT !.op = "reset"]
                   /\ UNCHANGED <<arena, head, current, default_block_size, blocks,
                                  released, issued, fresh, vcursor>>
       ELSE /\ ret' = [NoCall EXCEPT !.op = "reset",
                                     !.used = IF head # NULL THEN blocks[head].index
                                              ELSE 0]
            /\ blocks' = ResetBlocks(blocks, Chain)
            /\ current' = ResetCurrent(head, current)
            /\ UNCHANGED <<arena, head, default_block_size, released, issued, fresh,
                           vcursor>>

arena_free_inline(faults) ==
  /\ arena \notin Gone
  /\ IF arena = "none"
       THEN IF faults
              THEN Faults("free", blocks, released, head, current, 0, 0, 0)
              ELSE /\ ret' = [NoCall EXCEPT !.op = "free"]
                   /\ UNCHANGED <<arena, head, current, default_block_size, blocks,
                                  released, issued, fresh, vcursor>>
       ELSE /\ ret' = [NoCall EXCEPT !.op = "free"]
            /\ released' = FreeBlocks(released, Chain)
            /\ arena' = "freed"
            /\ UNCHANGED <<head, current, default_block_size, blocks, issued, fresh,
                           vcursor>>

NextInline ==
  \/ \E dbs \in DefaultSizes, calloc_ok \in BOOLEAN :
       arena_init(dbs, calloc_ok) /\ UNCHANGED elsewhere
  \/ \E size \in Sizes, alignment \in InlineAlignments, traps \in BOOLEAN :
       arena_alloc_inline(size, alignment, traps) /\ UNCHANGED elsewhere
  \/ \E faults \in BOOLEAN : arena_reset_inline(faults) /\ UNCHANGED elsewhere
  \/ \E faults \in BOOLEAN : arena_free_inline(faults) /\ UNCHANGED elsewhere

SpecInline == Init /\ [][NextInline]_vars

\* ------------------------------------------------------------------------
\* The padding computations of arena.h on their own: align_up (lines 293-295)
\* and the conditional form of the first arena_alloc (lines 74-75), applied
\* to one cursor address and one power-of-two alignment.
probeside == <<arena, head, current, default_block_size, blocks, released, ret,
               issued, fresh, vcursor, step, outer_cp, inner_cp, outer_data,
               inner_data, arenas, store, threads, arrayd, acall, replay>>

Addresses == 0..(SizeMod - 1)

PowersOfTwo == {a \in 1..(SizeMod - 1) : ~NotPowerOfTwo(a)}

PaddingInputs ==
  {[fn |-> "padding", done |-> FALSE, ptr |-> ptr, alignment |-> alignment,
    padding |-> 0, conditional |-> 0] :
     ptr \in Addresses, alignment \in PowersOfTwo}

InitPadding ==
  /\ ArenaAbsent
  /\ arenas = <<>>
  /\ store = <<>>
  /\ threads = <<>>
  /\ ArraydAbsent
  /\ ReplayAbsent
  /\ probe \in PaddingInputs

ComputePadding ==
  /\ probe.fn = "padding" /\ ~probe.done
  /\ probe' = [probe EXCEPT
       !.done = TRUE,
       !.padding = align_up(probe.ptr, probe.alignment),
       !.conditional = InlinePadding(probe.ptr, probe.alignment)]
  /\ UNCHANGED probeside

NextPadding == ComputePadding

SpecPadding == InitPadding /\ [][NextPadding]_vars

\* ------------------------------------------------------------------------
\* The size arithmetic of arena_alloc (arena.h:320-366) in a word of SizeMod
\* values: one request of any size made on an arena whose current block has
\* room for WordSizes of data, data[] at 8 mod 16 as malloc places it.
WordSizes == 1..(SizeMod - 1)
WordDefaults == {WordSize, 2 * WordSize}
WordIndices == {0, WordSize, 2 * WordSize}
WordAlignments == {1, 16}

WidthInputs ==
  {[fn |-> "width", done |-> FALSE, size |-> size, alignment |-> alignment,
    default_block_size |-> dbs, index |-> index, capacity |-> 2 * WordSize,
    grew |-> FALSE, request |-> 0, padding |-> 0, room |-> 0] :
     size \in WordSizes, alignment \in WordAlignments, dbs \in WordDefaults,
     index \in WordIndices}

InitWidth ==
  /\ ArenaAbsent
  /\ arenas = <<>>
  /\ store = <<>>
  /\ threads = <<>>
  /\ ArraydAbsent
  /\ ReplayAbsent
  /\ probe \in WidthInputs

\* arena->current->index + padding + size > arena->current->capacity, in
\* size_t arithmetic
DoesNotFitWord(index, padding, size, capacity) ==
  Wrap(Wrap(index + padding) + size) > capacity

\* sizeof(ArenaBlock) + block_size, the argument of malloc, in size_t
\* arithmetic
MallocRequest(block_size) == Wrap(HeaderSize + block_size)

\* The bytes of data[] inside a chunk of n bytes.
DataRoom(n) == IF n > HeaderSize THEN n - HeaderSize ELSE 0

\* The call, with every malloc succeeding: the block that serves the request
\* is the current one (room: what is left of it) or a new one (room: the data
\* bytes of the chunk malloc was asked for).
ComputeWidth ==
  /\ probe.fn = "width" /\ ~probe.done
  /\ LET padding == align_up(WordSize + probe.index, probe.alignment)
         block_size == BlockSize(probe.size, probe.default_block_size)
     IN probe' =
          IF DoesNotFitWord(probe.index, padding, probe.size, probe.capacity)
            THEN [probe EXCEPT !.done = TRUE, !.grew = TRUE,
                               !.request = MallocRequest(block_size),
                               !.capacity = block_size,
                               !.index = 0,
                               !.padding = align_up(WordSize, probe.alignment),
                               !.room = DataRoom(MallocRequest(block_size))]
            ELSE [probe EXCEPT !.done = TRUE, !.padding = padding,
                               !.room = probe.capacity - probe.index]
  /\ UNCHANGED probeside

NextWidth == ComputeWidth

SpecWidth == InitWidth /\ [][NextWidth]_vars

\* ================================================================ claims
Disjoint(r1, r2) == r1.addr + r1.size <= r2.addr \/ r2.addr + r2.size <= r1.addr

Succeeded == ret.op = "alloc" /\ ret.ptr # NULL

\* C1: every alloc that returns a pointer returns an address that is a
\* multiple of the requested alignment, whatever block serves it and wherever
\* malloc placed that block.
C1_Aligned == Succeeded => ret.ptr % ret.alignment = 0

\* C1 witness: after a reset, an alloc with alignment 64 is served with
\* non-zero padding from a block that this very call created.
C1_Witness ==
  /\ Succeeded /\ ~fresh
  /\ ret.alignment = 64 /\ ret.padding > 0 /\ ret.created = 1
  /\ ret.ptr = data(blocks[current]) + ret.padding

\* C2: every block has 0 <= index <= capacity, and the byte range an alloc
\* returns lies inside the data region of the block that is current after
\* the call.
C2_InBounds ==
  /\ \A i \in 1..Len(blocks) :
       0 <= blocks[i].index /\ blocks[i].index <= blocks[i].capacity
  /\ Succeeded =>
       /\ data(blocks[current]) <= ret.ptr
       /\ ret.ptr + ret.size <= data(blocks[current]) + blocks[current].capacity

\* C3: the byte ranges returned by any two allocs with no reset between them
\* are disjoint.
C3_Disjoint ==
  \A i, j \in 1..Len(issued) : i < j => Disjoint(issued[i], issued[j])

\* C4: after free, every block the arena ever obtained from malloc has been
\* released exactly once.
C4_AllReleased ==
  arena = "freed" => \A i \in 1..Len(blocks) : released[i] = 1

\* C5: no alloc or reset releases, moves or resizes a block: while the arena
\* is not freed the blocks obtained so far stay obtained and unreleased, each
\* with the base address and the capacity it was created with.
C5_BlocksStable ==
  [][arena' # "freed" =>
       /\ Len(blocks') >= Len(blocks)
       /\ \A i \in 1..Len(blocks) :
            /\ blocks'[i].base = blocks[i].base
            /\ blocks'[i].capacity = blocks[i].capacity
            /\ released'[i] = 0]_vars

\* C5 witness: an alloc after a reset has grown a chain that already held
\* allocations in two blocks.
C5_Witness ==
  /\ Succeeded /\ ~fresh /\ ret.created = 1
  /\ Len(blocks) >= 3 /\ Len(issued) >= 2

\* C6: after reset every block reachable from head has index 0 and current
\* is head.
C6_ResetAll ==
  (ret.op = "reset" /\ arena = "live") =>
     /\ \A k \in 1..Len(Chain) : blocks[Chain[k]].index = 0
     /\ current = head

\* C6 witness: a reset of a chain of at least two blocks whose first block
\* was in use.
C6_Witness ==
  ret.op = "reset" /\ arena = "live" /\ Len(Chain) >= 2 /\ ret.used > 0

\* C7: reset changes block indices and current only: head, the next links,
\* the number of blocks, every capacity and base, what is released and
\* default_block_size stay as they were.
C7_ResetFrame ==
  [][(ret'.op = "reset" /\ arena = "live") =>
       /\ arena' = arena
       /\ head' = head
       /\ default_block_size' = default_block_size
       /\ released' = released
       /\ Len(blocks') = Len(blocks)
       /\ \A i \in 1..Len(blocks) :
            /\ blocks'[i].next = blocks[i].next
            /\ blocks'[i].capacity = blocks[i].capacity
            /\ blocks'[i].base = blocks[i].base]_vars

\* C7 witness: a reset of a chain of three blocks that were in use.
C7_Witness ==
  ret.op = "reset" /\ arena = "live" /\ Len(Chain) >= 3 /\ ret.used > 0

\* The alloc that directly follows a reset of an arena that has blocks.
AllocAfterReset ==
  /\ ret.op = "reset" /\ arena = "live" /\ head # NULL
  /\ ret'.op = "alloc" /\ ret'.size > 0
  /\ ret'.alignment > 0 /\ ~NotPowerOfTwo(ret'.alignment)

\* The first block is reused from its start: the call returns the start of
\* head's data region plus the padding, and obtains no block.
ReusesHead ==
  /\ ret'.ptr = data(blocks[head]) + align_up(data(blocks[head]), ret'.alignment)
  /\ Len(blocks') = Len(blocks)

\* C8 as claimed: after reset, an alloc that returns a pointer and whose size
\* is at most the capacity used (in the first block) before the reset returns
\* the start of head's data region plus the alignment padding and obtains no
\* new block.
C8_Original ==
  [][(AllocAfterReset /\ ret'.ptr # NULL /\ ret'.size <= ret.used)
       => ReusesHead]_vars

\* C8 amended: the same, for an alloc whose size plus the padding needed at
\* the start of head's data region is at most the capacity used in the first
\* block before the reset.
C8_Amended ==
  [][(/\ AllocAfterReset
      /\ align_up(data(blocks[head]), ret'.alignment) + ret'.size <= ret.used)
       => ReusesHead]_vars

\* C8 witness: directly after a reset of a two-block chain, an alloc whose
\* size plus non-zero padding is within what the first block had in use was
\* served from the start of head.
C8_Witness ==
  /\ Succeeded /\ ~fresh /\ Len(issued) = 1 /\ Len(Chain) >= 2
  /\ ret.padding > 0 /\ ret.created = 0
  /\ ret.padding + ret.size <= ret.used
  /\ ret.ptr = data(blocks[head]) + ret.padding

\* C9: when a valid request does not fit in the block that is current and the
\* call returns a pointer, exactly one block is created, of capacity
\* max(size, default_block_size); it is the next of the previous current and
\* the new current, and head is unchanged.
C9_Grow ==
  [][(/\ arena = "live" /\ current # NULL
      /\ ret'.op = "alloc" /\ ret'.ptr # NULL
      /\ blocks[current].index
           + align_up(data(blocks[current]) + blocks[current].index, ret'.alignment)
           + ret'.size > blocks[current].capacity)
       => /\ Len(blocks') = Len(blocks) + 1
          /\ ret'.created = 1
          /\ blocks'[Len(blocks')].capacity =
               (IF ret'.size > default_block_size
                  THEN ret'.size ELSE default_block_size)
          /\ blocks'[current].next = Len(blocks')
          /\ current' = Len(blocks')
          /\ head' = head]_vars

\* C9 witness: a request larger than default_block_size grew a chain whose
\* current block still had room for a smaller request.
C9_Witness ==
  /\ Succeeded /\ ret.created = 1 /\ Len(Chain) >= 2
  /\ ret.size > default_block_size
  /\ \E i \in 1..Len(blocks) :
       /\ blocks[i].next = current
       /\ blocks[i].index < blocks[i].capacity

\* C10: on an arena that was never reset, as long as the requests made so far
\* (sizes plus paddings, laid out one after the other from the start of the
\* first block) fit in the first block's capacity, there is one block, current
\* is head and head's index is the sum of the sizes and paddings.
C10_OneBlock ==
  (arena = "live" /\ fresh /\ head # NULL /\ vcursor <= blocks[head].capacity) =>
     /\ Len(blocks) = 1
     /\ current = head
     /\ blocks[head].index = vcursor

\* C10 witness: two allocations, one of them padded, fill the first block.
C10_Witness ==
  /\ arena = "live" /\ fresh /\ Len(issued) = 2 /\ Len(blocks) = 1
  /\ vcursor = blocks[head].capacity
  /\ vcursor > issued[1].size + issued[2].size

\* C11: after the first successful alloc on a freshly initialised arena the
\* arena has exactly one block and head == current.
C11_FirstAlloc ==
  (arena = "live" /\ fresh /\ Succeeded /\ Len(issued) = 1) =>
     Len(blocks) = 1 /\ head = current

\* max(default_block_size, size)
MaxOf(x, y) == IF x > y THEN x ELSE y

\* C12: every block a call to alloc creates has capacity exactly
\* max(default_block_size, size of that request), and keeps it afterwards.
C12_Capacity ==
  [][/\ ret'.op = "alloc" =>
          \A i \in (Len(blocks) + 1)..Len(blocks') :
             blocks'[i].capacity = MaxOf(default_block_size, ret'.size)
     /\ \A i \in 1..Len(blocks) : blocks'[i].capacity = blocks[i].capacity]_vars

\* C12 witness: a request larger than default_block_size has its own block,
\* sized to it, behind a first block of default_block_size.
C12_Witness ==
  /\ Succeeded /\ ret.created = 1 /\ Len(blocks) >= 2
  /\ ret.size > default_block_size
  /\ blocks[Len(blocks)].capacity = ret.size
  /\ blocks[1].capacity = default_block_size

\* C13: alloc returns failure when alignment is 0 or is not a power of two,
\* in every arena state and for every size; the call neither divides by the
\* alignment (no fault) nor returns a pointer.
C13_BadAlignment ==
  (ret.op = "alloc" /\ (ret.alignment = 0 \/ NotPowerOfTwo(ret.alignment))) =>
     ret.ptr = NULL /\ arena # "crashed"

\* C14: alloc on a null handle or with size 0 returns failure and creates no
\* block: head, current and the blocks are as before the call.
C14_NullOrEmpty ==
  [][(ret'.op = "alloc" /\ (arena = "none" \/ ret'.size = 0)) =>
       /\ ret'.ptr = NULL
       /\ blocks' = blocks
       /\ head' = head
       /\ current' = current]_vars

\* C14 witness: alloc of 0 bytes with a valid alignment on a fresh arena has
\* failed and the arena still has no block.
C14_Witness ==
  /\ arena = "live" /\ ret.op = "alloc" /\ ret.size = 0 /\ ret.alignment = 16
  /\ ret.ptr = NULL /\ head = NULL /\ current = NULL /\ blocks = <<>>

\* C15: after an alloc that returns failure every block obtained so far is in
\* the chain reachable from head (none is left unlinked by the call), current
\* is reachable from head when there is a block, and every index is at most
\* its capacity.
Reachable(i) == \E k \in 1..Len(Chain) : Chain[k] = i

C15_Continuable ==
  (arena = "live" /\ ret.op = "alloc" /\ ret.ptr = NULL) =>
     /\ \A i \in (Len(blocks) - ret.created + 1)..Len(blocks) : Reachable(i)
     /\ (head = NULL) = (current = NULL)
     /\ current # NULL => Reachable(current)
     /\ \A i \in 1..Len(blocks) : blocks[i].index <= blocks[i].capacity

\* C16: init(0) returns failure, and so does init when calloc returns NULL; no
\* arena exists afterwards.
C16_InitFails ==
  (ret.op = "init" /\ (ret.size = 0 \/ ret.sysfail)) =>
     ret.ptr = NULL /\ arena = "none" /\ blocks = <<>>

\* C16 witness: init with a positive block size failed because calloc did.
C16_Witness ==
  ret.op = "init" /\ ret.size > 0 /\ ret.sysfail /\ ret.ptr = NULL /\ arena = "none"

\* C17: a successful init(d) yields an arena with head and current absent and
\* default_block_size == d, and only a call to alloc obtains a block.
C17_InitState ==
  /\ []((ret.op = "init" /\ ret.ptr # NULL) =>
          /\ arena = "live" /\ head = NULL /\ current = NULL
          /\ default_block_size = ret.size /\ ret.size > 0
          /\ blocks = <<>>)
  /\ [][Len(blocks') # Len(blocks) => ret'.op = "alloc"]_vars

\* C17 witness: init(24) succeeded.
C17_Witness ==
  ret.op = "init" /\ ret.ptr # NULL /\ ret.size = 24 /\ default_block_size = 24

\* C18: current is absent exactly when head is absent, and otherwise current
\* is reachable from head by next links.
C18_CurrentReachable ==
  arena = "live" =>
     /\ (current = NULL) = (head = NULL)
     /\ current # NULL => Reachable(current)

\* C18 witness: after a reset the chain has grown again and current is a block
\* behind head.
C18_Witness ==
  /\ arena = "live" /\ ~fresh /\ Len(blocks) >= 3
  /\ current # head /\ Reachable(current) /\ ret.created = 1

\* The last block of the chain reachable from head.
Last == Chain[Len(Chain)]

\* C19 as claimed: whenever the arena has a block, current is the last block
\* of the chain reachable from head and has no successor.
C19_Original ==
  (arena = "live" /\ head # NULL) =>
     current = Last /\ blocks[current].next = NULL

\* C19 amended: whenever the arena has a block, current is the last block of
\* the chain reachable from head, or the arena has been reset and current is
\* head.
C19_Amended ==
  (arena = "live" /\ head # NULL) =>
     \/ current = Last /\ blocks[current].next = NULL
     \/ ~fresh /\ current = head

\* C19 witness: after a reset a call has created a block, which is current and
\* the last of the chain.
C19_Witness ==
  /\ arena = "live" /\ ~fresh /\ Succeeded /\ ret.created = 1
  /\ current = Last /\ current # head /\ blocks[current].next = NULL

\* C20: free on a null arena handle does nothing and does not fault; reset on
\* an arena that has no blocks changes nothing and leaves head and current
\* absent.
C20_NullSafe ==
  [][/\ (arena = "none" /\ ret'.op = "free") =>
          /\ arena' = "none"
          /\ UNCHANGED <<head, current, blocks, released>>
     /\ (arena = "live" /\ head = NULL /\ ret'.op = "reset") =>
          /\ arena' = "live" /\ head' = NULL /\ current' = NULL
          /\ UNCHANGED <<blocks, released>>]_vars

\* C21: a second free on a handle that was already freed is a no-op: in no
\* sequence of calls is a block or the control structure released twice (nor
\* is the process killed by the call).
C21_NoDoubleFree ==
  /\ arena \notin {"freed twice", "crashed"}
  /\ \A i \in 1..Len(released) : released[i] <= 1

\* The byte range the last call returned.
Returned == [addr |-> ret.ptr, size |-> ret.size]

\* The part of the captured block that was handed out before the checkpoint.
Captured(cp) == [addr |-> data(blocks[cp.block]), size |-> cp.index]

\* The last call repeated the request r and both calls returned a pointer.
Repeated(r) == Succeeded /\ r.ptr # NULL

\* C22: restore(checkpoint) puts the captured block's index back to the captured
\* value, the index of every block created after it to 0 and current to the
\* captured block, and the same requests made again after the restore return
\* the same addresses: one request after inner_cp, two after outer_cp.
C22_SameAddresses ==
  /\ (step = "inner_restored" /\ inner_cp.block # NULL) =>
        /\ current = inner_cp.block
        /\ blocks[current].index = inner_cp.index
        /\ \A i \in (current + 1)..Len(blocks) : blocks[i].index = 0
  /\ (step = "inner_again" /\ Repeated(inner_data)) => ret.ptr = inner_data.ptr
  /\ (step = "outer_again" /\ Repeated(outer_data)) => ret.ptr = outer_data.ptr
  /\ (step = "both_again" /\ Repeated(inner_data) /\ outer_data.ptr # NULL) =>
        ret.ptr = inner_data.ptr

\* C23: restore(checkpoint) leaves what was allocated before the checkpoint
\* intact: the restore and the calls after it leave the index of every block
\* created before the captured block as it is, and no call after the restore
\* returns bytes of the captured block below the captured index.
C23_Intact ==
  /\ [](/\ (step = "inner_again" /\ Succeeded /\ inner_cp.block # NULL) =>
              Disjoint(Returned, Captured(inner_cp))
        /\ (step \in {"outer_again", "both_again"} /\ Succeeded
              /\ outer_cp.block # NULL) =>
              Disjoint(Returned, Captured(outer_cp)))
  /\ [][/\ step' \in {"inner_restored", "inner_again"} =>
             \A i \in 1..Len(blocks) :
                i < inner_cp.block => blocks'[i].index = blocks[i].index
        /\ step' \in {"outer_restored", "outer_again", "both_again"} =>
             \A i \in 1..Len(blocks) :
                i < outer_cp.block => blocks'[i].index = blocks[i].index]_vars

\* C24: nested checkpoints compose: after restore(inner_cp) the request of
\* inner_data returns inner_data's address; after then restore(outer_cp) the
\* request of outer_data returns outer_data's address; and restoring a
\* checkpoint taken before any block existed does what reset does.
C24_Nested ==
  /\ []((step = "inner_again" /\ Repeated(inner_data)) => ret.ptr = inner_data.ptr)
  /\ []((step = "outer_again" /\ Repeated(outer_data)) => ret.ptr = outer_data.ptr)
  /\ [][(step' = "outer_restored" /\ outer_cp.block = NULL) =>
          /\ blocks' = ResetBlocks(blocks, Chain)
          /\ current' = ResetCurrent(head, current)]_vars

\* C25: two threads, each on its own arena: whatever the interleaving of
\* their steps, every call of init, alloc, reset and free returns what it
\* returns run alone from the state its arena had when the call began, and
\* leaves the arena and its blocks as the call run alone leaves them (free:
\* hands to free() exactly the blocks of the chain, once each); and a step of
\* one thread leaves the other thread's arena and the blocks it owns
\* unchanged.
C25_Independent ==
  [][\A t \in Threads :
       /\ threads'[t].calls = threads[t].calls + 1 =>
            LET T == threads'[t]
                R == Alone(T)
            IN /\ T.ptr = R.ptr
               /\ arenas'[Handle(threads, t)] = R.arena
               /\ \A b \in InChain(R.arena, R.store) \cap DOMAIN R.store :
                    b \in DOMAIN store' /\ store'[b] = R.store[b]
               /\ T.op = "free" =>
                    T.gave = ChainOf(T.began.arena, T.began.store)
       /\ threads'[t] # threads[t] =>
            \A u \in Threads \ {t} :
              /\ arenas'[Handle(threads, u)] = arenas[Handle(threads, u)]
              /\ \A b \in Owned(arenas[Handle(threads, u)], threads[u], store) :
                   b \in DOMAIN store' /\ store'[b] = store[b]]_vars

\* Both threads are inside arena_alloc at once, each past the creation of a
\* block of its own arena, and one of them returns an allocation.
C25_Witness ==
  /\ threads[1].op = "alloc" /\ threads[1].pc = "idle" /\ threads[1].ptr # NULL
  /\ threads[1].raced
  /\ threads[2].op = "alloc" /\ threads[2].pc = "bump_size"
  /\ arenas[1].head # NULL /\ arenas[2].head # NULL
  /\ arenas[1].head # arenas[2].head

\* The allocations the calls of all threads returned: <<thread, call>> pairs.
Served == {c \in Threads \X (1..MaxCalls) : c[2] <= Len(threads[c[1]].out)}

Range(c) == threads[c[1]].out[c[2]]

Overlap(c, d) ==
  /\ c # d
  /\ Range(c).addr < Range(d).addr + Range(d).size
  /\ Range(d).addr < Range(c).addr + Range(c).size

AllIdle == \A t \in Threads : threads[t].pc = "idle"

\* A block that malloc returned to arena_alloc and no next link from the
\* head reaches.
LostBlock == \E b \in DOMAIN store : b \notin InChain(arenas[1], store)

\* C26: one arena used by two threads with no lock is unsafe only through
\* the interleaving: as long as no call began while another was running,
\* the returned ranges are pairwise disjoint and every block created is on
\* the chain; the witness is the interleaving of two arena_alloc calls the
\* claim speaks of, whose returned ranges overlap.
C26_SerialSafe ==
  ((\A t \in Threads : ~threads[t].raced) /\ AllIdle) =>
     /\ \A c, d \in Served : ~Overlap(c, d)
     /\ ~LostBlock

\* Two calls that ran interleaved have returned, and their ranges overlap.
C26_Witness ==
  /\ AllIdle
  /\ \E c, d \in Served : c[1] # d[1] /\ Overlap(c, d)

Appended == acall.op = "append" /\ acall.returned

\* C27: an arrayd_append of any pointer, NULL included, that returns has
\* raised the count by exactly one, arrayd_get of the old count returns the
\* pointer, and every element stored before is at its index with its value,
\* whether or not the append resized the array.
C27_Append ==
  Appended =>
    /\ arrayd.index = acall.before.index + 1
    /\ ~OutOfBounds(acall.before.index, arrayd.index)
    /\ Slot(arrayd.data, acall.before.index) = acall.data
    /\ \A k \in 0..(acall.before.index - 1) :
         Slot(arrayd.data, k) = Slot(acall.before.data, k)

\* An append of NULL to a full array of two elements, which doubled it.
C27_Witness ==
  /\ Appended /\ acall.data = NULL
  /\ acall.before.index = 2 /\ acall.before.length = 2
  /\ arrayd.length = 4
  /\ Slot(acall.before.data, 0) # Slot(acall.before.data, 1)

Removed == acall.op = "remove_at" /\ acall.returned

\* C28: arrayd_remove_at(arr, i) with i below the count lowers the count by
\* exactly one, leaves the elements below i where they are and moves every
\* element from an index j above i to j - 1.
C28_Remove ==
  (Removed /\ acall.index < acall.before.index) =>
    /\ arrayd.index = acall.before.index - 1
    /\ \A k \in 0..(acall.index - 1) :
         Slot(arrayd.data, k) = Slot(acall.before.data, k)
    /\ \A j \in (acall.index + 1)..(acall.before.index - 1) :
         Slot(arrayd.data, j - 1) = Slot(acall.before.data, j)

\* The middle one of three different elements is removed.
C28_Witness ==
  /\ Removed /\ acall.index = 1 /\ acall.before.index = 3
  /\ Slot(acall.before.data, 0) # Slot(acall.before.data, 1)
  /\ Slot(acall.before.data, 1) # Slot(acall.before.data, 2)

Replaced == acall.op = "put_at" /\ acall.returned

\* C29: arrayd_put_at(arr, i, p) with i below the count returns 0, after it
\* arrayd_get(arr, i) returns p, and the count, the capacity and every other
\* slot are as before.
C29_PutAt ==
  (Replaced /\ acall.index < acall.before.index) =>
    /\ acall.ret = 0
    /\ Slot(arrayd.data, acall.index) = acall.data
    /\ arrayd.index = acall.before.index
    /\ arrayd.length = acall.before.length
    /\ \A k \in (0..(arrayd.length - 1)) \ {acall.index} :
         Slot(arrayd.data, k) = Slot(acall.before.data, k)

\* An element between two others is replaced by a different pointer.
C29_Witness ==
  /\ Replaced /\ acall.index = 1 /\ acall.before.index = 3
  /\ Slot(acall.before.data, 1) # acall.data

Indexed == acall.op \in {"get", "put_at", "remove_at"}

\* C30: arrayd_get, arrayd_put_at and arrayd_remove_at with an index at or
\* above the count, on an empty array too, never return: the program aborts
\* and no slot and no count has changed.
C30_Aborts ==
  (Indexed /\ acall.index >= acall.before.index) =>
    /\ ~acall.returned
    /\ arrayd.state = "aborted"
    /\ arrayd.data = acall.before.data
    /\ arrayd.index = acall.before.index
    /\ arrayd.length = acall.before.length

\* arrayd_put_at with the index equal to the count of an array that has a
\* free slot there has aborted.
C30_Witness ==
  /\ acall.op = "put_at" /\ ~acall.returned
  /\ acall.index = acall.before.index /\ acall.before.index > 0
  /\ acall.before.index < acall.before.length
  /\ acall.data # Slot(acall.before.data, acall.index)

\* C31: arrayd_new(n) with n <= 0 aborts; an arrayd_new that returns was
\* called with n > 0 and hands back an array of count 0 and capacity n.
C31_New ==
  acall.op = "new" =>
    /\ acall.index <= 0 => (~acall.returned /\ arrayd.state = "aborted")
    /\ acall.returned =>
         /\ acall.index > 0
         /\ arrayd.state = "live"
         /\ arrayd.index = 0
         /\ arrayd.length = acall.index

\* arrayd_new(2) has returned.
C31_Witness ==
  /\ acall.op = "new" /\ acall.returned /\ acall.index = 2
  /\ Len(arrayd.data) = 2

\* C32: a live Arrayd has count <= capacity and capacity >= 1; an append
\* made at count = capacity doubles the capacity, and every other call that
\* returns (remove_at too) leaves the capacity as it was.
C32_Capacity ==
  /\ [](arrayd.state = "live" =>
          arrayd.index <= arrayd.length /\ arrayd.length >= 1)
  /\ [][(arrayd.state = "live" /\ arrayd'.state = "live") =>
          arrayd'.length =
            IF acall'.op = "append" /\ arrayd.index = arrayd.length
              THEN 2 * arrayd.length ELSE arrayd.length]_vars

\* An append to a full array of one slot has returned, and a removal after
\* it is seen with the doubled capacity.
C32_Witness ==
  /\ Removed /\ arrayd.length = 2 /\ arrayd.index = 1
  /\ acall.before.index = 2

\* C33: after the reset of an arena that had several blocks, making the
\* requests of before the reset again obtains no block from the system: the
\* arena has obtained, and has on its chain, as many blocks as at the reset.
C33_NoNewBlock ==
  (replay.phase = "again" /\ replay.owned >= 2) =>
     /\ Len(blocks) = replay.owned
     /\ Len(Chain) = replay.owned
     /\ ~ret.sysfail

Padded == probe.fn = "padding" /\ probe.done

\* C34: for every cursor address and every power-of-two alignment the
\* padding is 0 when the cursor is aligned, is less than the alignment, and
\* leads to the lowest aligned address not below the cursor; the conditional
\* form and the double-modulo form of the computation give the same padding.
C34_Padding ==
  Padded =>
    /\ probe.ptr % probe.alignment = 0 => probe.padding = 0
    /\ probe.padding >= 0 /\ probe.padding < probe.alignment
    /\ (probe.ptr + probe.padding) % probe.alignment = 0
    /\ \A q \in probe.ptr..(probe.ptr + probe.padding - 1) :
         q % probe.alignment # 0
    /\ probe.conditional = probe.padding

\* A cursor 8 past a multiple of 16, as that of every fresh block, padded
\* for alignment 16.
C34_Witness ==
  /\ Padded /\ probe.alignment = 16 /\ probe.ptr % 16 = 8
  /\ probe.padding = 8

\* The bytes of block i between its index and its capacity.
Unused(i) == [addr |-> data(blocks[i]) + blocks[i].index,
              size |-> blocks[i].capacity - blocks[i].index]

\* The step is a call to alloc that returns a pointer.
AllocSucceeds == arena = "live" /\ ret'.op = "alloc" /\ ret'.ptr # NULL

\* A successful alloc writes the index of the block that is current after
\* it and, when it grows the chain, the next link of the block that was
\* current and the arena's current, and nothing else.
FrameOfAlloc ==
  AllocSucceeds =>
    /\ default_block_size' = default_block_size
    /\ head # NULL => head' = head
    /\ current' # current => current' > Len(blocks)
    /\ ret'.ptr + ret'.size = data(blocks'[current']) + blocks'[current'].index
    /\ \A i \in 1..Len(blocks) :
         /\ blocks'[i].capacity = blocks[i].capacity
         /\ i # current' => blocks'[i].index = blocks[i].index
         /\ blocks'[i].next # blocks[i].next =>
              i = current /\ blocks'[i].next = current' /\ current' # current

\* C35: a successful alloc changes only the index of the block current
\* after the call and, when it grows the chain, the next link of the previous
\* current and the arena's current; so the bytes left unused in any other
\* block are not part of the range it returns.
C35_Frame ==
  /\ [](Succeeded =>
          \A i \in 1..Len(blocks) :
            (i # current /\ blocks[i].index < blocks[i].capacity) =>
               Disjoint(Returned, Unused(i)))
  /\ [][FrameOfAlloc]_vars

\* C36: an alloc that returns failure, for its arguments or because the
\* system gave no memory, leaves head, current, the blocks, their links and
\* their indices as they were before the call.
C36_FailureFrame ==
  [][(ret'.op = "alloc" /\ ret'.ptr = NULL) =>
       UNCHANGED <<arena, head, current, default_block_size, blocks>>]_vars

\* C37: in word arithmetic no request is served from a block too small for
\* it: the byte count asked of malloc for a new block, header plus capacity,
\* has not wrapped below the capacity; the sum the fit test compares has not
\* wrapped; and the bytes the serving block has from its cursor on are at
\* least the size, for every size up to the largest word.
C37_NoWrap ==
  (probe.fn = "width" /\ probe.done) =>
     /\ probe.grew => probe.request >= probe.capacity
     /\ ~probe.grew => probe.index + probe.padding + probe.size <= probe.capacity
     /\ probe.size <= probe.room

\* C38: after any calls to alloc and reset the chain from head holds no
\* block twice and ends in a block with no successor, so the walks of reset
\* and free end; the walk of free has released every block of the chain
\* exactly once and no other block.
C38_Acyclic ==
  arena \in {"live", "freed"} =>
    /\ \A j, k \in 1..Len(Chain) : j < k => Chain[j] # Chain[k]
    /\ head # NULL => blocks[Chain[Len(Chain)]].next = NULL
    /\ \A i \in 1..Len(blocks) :
         released[i] = IF arena = "freed" /\ Reachable(i) THEN 1 ELSE 0

\* A chain of three blocks, grown in part after a reset, has been freed.
C38_Witness ==
  /\ arena = "freed" /\ ~fresh /\ Len(Chain) = 3
  /\ \A k \in 1..Len(Chain) : released[Chain[k]] = 1

\* What a caller can see of the Arrayd A: arrayd_get at every index below
\* arrayd_count, as a sequence.
Content(A) == [k \in 1..A.index |-> Slot(A.data, k - 1)]

\* delete-at on a sequence, first position 0.
DeleteAt(seq, i) == SubSeq(seq, 1, i) \o SubSeq(seq, i + 2, Len(seq))

\* replace-at on a sequence, first position 0.
ReplaceAt(seq, i, p) == [k \in 1..Len(seq) |-> IF k = i + 1 THEN p ELSE seq[k]]

\* C39: the content of the Arrayd follows the sequence it stands for: empty
\* after arrayd_new, and after each append, put_at and remove_at that returns
\* the sequence of before with the element appended, replaced at the index or
\* deleted at the index; arrayd_count and arrayd_get return its length and
\* its elements and change nothing.
C39_Refines ==
  [][(arrayd'.state = "live" /\ acall'.returned) =>
       CASE acall'.op = "new" -> Content(arrayd') = <<>>
         [] acall'.op = "append" ->
              Content(arrayd') = Append(Content(arrayd), acall'.data)
         [] acall'.op = "put_at" ->
              Content(arrayd') = ReplaceAt(Content(arrayd), acall'.index, acall'.data)
         [] acall'.op = "remove_at" ->
              Content(arrayd') = DeleteAt(Content(arrayd), acall'.index)
         [] acall'.op = "count" ->
              /\ Content(arrayd') = Content(arrayd)
              /\ acall'.ret = Len(Content(arrayd))
         [] acall'.op = "get" ->
              /\ Content(arrayd') = Content(arrayd)
              /\ acall'.ret = Content(arrayd)[acall'.index + 1]
         [] OTHER -> TRUE]_vars

\* After appends that resized the array and a removal, arrayd_get returns
\* the last of the two elements left.
C39_Witness ==
  /\ acall.op = "get" /\ acall.returned /\ acall.index = 1 /\ acall.ret = 2
  /\ arrayd.index = 2 /\ arrayd.length = 4
  /\ Slot(arrayd.data, 0) = NULL

====
